---- MODULE Spec2Model ----
(***************************************************************************)
(* Model of the retail BI batch pipeline (02_etl/pipeline.py):             *)
(* ETLPipeline.extract / transform / load / run over the sale ledger       *)
(* fato_vendas.csv, producing vendas_mensais, rfm_clientes, abc_produtos.  *)
(*                                                                         *)
(* Numbers.  Money amounts are integers.  A pandas float column that may   *)
(* hold NaN or +-inf is a record [tipo, v]: tipo = "num" with v the value  *)
(* in hundredths (the code rounds these columns to 2 decimals), tipo =     *)
(* "nan", or tipo = "inf" with v the sign.                                 *)
(***************************************************************************)
EXTENDS Integers, Sequences, FiniteSets, TLC

(***************************************************************************)
(* Bounds of the model.                                                    *)
(***************************************************************************)
MaxVendas == 3        \* rows of fato_vendas.csv
MaxTicks == 1         \* days the wall clock may advance between runs

(***************************************************************************)
(* Generic helpers over sequences and sets of integers.                    *)
(***************************************************************************)
Range(s) == {s[i] : i \in DOMAIN s}

Min(S) == CHOOSE x \in S : \A y \in S : x <= y

Max(S) == CHOOSE x \in S : \A y \in S : x >= y

RECURSIVE SortedSeq(_)
\* the elements of a finite set of integers, ascending (groupby sorts keys)
SortedSeq(S) ==
    IF S = {} THEN <<>> ELSE LET m == Min(S) IN <<m>> \o SortedSeq(S \ {m})

RECURSIVE SumSeq(_)
SumSeq(s) == IF s = <<>> THEN 0 ELSE Head(s) + SumSeq(Tail(s))

Col(tab, c) == [i \in DOMAIN tab |-> tab[i][c]]

(***************************************************************************)
(* Floats that may be NaN or infinite (numpy semantics).                   *)
(***************************************************************************)
Num(v) == [tipo |-> "num", v |-> v]

NaN == [tipo |-> "nan", v |-> 0]

Inf(s) == [tipo |-> "inf", v |-> s]

\* round(n / d) for d > 0, ties to even (numpy.round)
RoundHalfEvenPos(n, d) ==
    LET q == n \div d
        r == n % d
    IN  IF 2 * r < d THEN q
        ELSE IF 2 * r > d THEN q + 1
        ELSE IF q % 2 = 0 THEN q ELSE q + 1

RoundHalfEven(n, d) == IF d > 0 THEN RoundHalfEvenPos(n, d) ELSE RoundHalfEvenPos(-n, -d)

\* (a / b * escala).round(2), as hundredths; a zero divisor gives NaN or +-inf, no fault
DivRound2(a, b, escala) ==
    IF b = 0
    THEN IF a = 0 THEN NaN ELSE IF a > 0 THEN Inf(1) ELSE Inf(-1)
    ELSE Num(RoundHalfEven(a * escala * 100, b))

\* x <= n for a float x and a number n given in hundredths; NaN compares False
FloatLe(x, n) ==
    CASE x.tipo = "num" -> x.v <= n
      [] x.tipo = "inf" -> x.v < 0
      [] OTHER -> FALSE

(***************************************************************************)
(* Calendar: a Timestamp at midnight is [ano, mes, dia].                   *)
(***************************************************************************)
\* days since 1970-01-01 of a civil date (proleptic Gregorian)
DayNum(d) ==
    LET y == IF d.mes <= 2 THEN d.ano - 1 ELSE d.ano
        era == y \div 400
        yoe == y - era * 400
        mp == IF d.mes > 2 THEN d.mes - 3 ELSE d.mes + 9
        doy == (153 * mp + 2) \div 5 + d.dia - 1
        doe == yoe * 365 + yoe \div 4 - yoe \div 100 + doy
    IN  era * 146097 + doe - 719468

\* Series.dt.dayofweek: Monday = 0
DayOfWeek(d) == (DayNum(d) + 3) % 7

\* to_csv writes a date as the text YYYY-MM-DD, here the triple of its fields
FormatData(d) == <<d.ano, d.mes, d.dia>>

\* read_csv(parse_dates=...) parses the text back to a Timestamp
ParseData(t) == [ano |-> t[1], mes |-> t[2], dia |-> t[3]]

(***************************************************************************)
(* Tables.  A DataFrame is a sequence of rows (records); an attribute or   *)
(* file that does not exist is Ausente.                                    *)
(***************************************************************************)
Ausente == [def |-> FALSE, linhas |-> <<>>]

Tabela(linhas) == [def |-> TRUE, linhas |-> linhas]

\* the columns of a sale record as the upstream generator writes them
ColunasBase ==
    {"ID_Venda", "ID_Cliente", "ID_Produto", "Data_Venda", "Quantidade",
     "Receita_Liquida", "Lucro_Bruto"}

Projetar(r, cols) == [c \in cols |-> r[c]]

\* pd.read_csv(fato_vendas.csv, parse_dates=['Data_Venda'])
read_csv_fato(linhas) ==
    [i \in DOMAIN linhas |-> [linhas[i] EXCEPT !.Data_Venda = ParseData(@)]]

\* DataFrame.to_csv(fato_vendas.csv, index=False): every column, dates as text
to_csv_fato(linhas) ==
    [i \in DOMAIN linhas |-> [linhas[i] EXCEPT !.Data_Venda = FormatData(@)]]

(***************************************************************************)
(* Sale Record Normalizer: transform, derived columns of fato_vendas.      *)
(***************************************************************************)
Margem_Pct(r) == DivRound2(r.Lucro_Bruto, r.Receita_Liquida, 100)

\* assigning df['col'] = ... adds the column or overwrites it, in place
Normalizar(r) ==
    [Ano |-> r.Data_Venda.ano,
     Mes |-> r.Data_Venda.mes,
     Dia_Semana |-> DayOfWeek(r.Data_Venda),
     Margem_Pct |-> Margem_Pct(r)] @@ r

NormalizarTabela(fato) == [i \in DOMAIN fato |-> Normalizar(fato[i])]

(***************************************************************************)
(* Monthly Aggregator: groupby(['Ano','Mes']).agg(sum, sum, sum, count).   *)
(***************************************************************************)
\* mutant: the group key without the month
ChaveMes_SoAno(r) == r.Ano * 12

ChaveMes(r) == r.Ano * 12 + (r.Mes - 1)

\* the rows of one (Ano, Mes) group
GrupoMes(fato, k) == SelectSeq(fato, LAMBDA r : ChaveMes(r) = k)

\* mutant: the average ticket cut to 2 decimals, not rounded
Ticket_Medio_truncado(receita, qtd) ==
    IF qtd = 0 THEN NaN ELSE Num((receita * 100) \div qtd)

Ticket_Medio(receita, qtd) == DivRound2(receita, qtd, 1)

\* mutant: the revenue column summed from the wrong source column
LinhaMensal_ColunaErrada(fato, k) ==
    LET g == GrupoMes(fato, k)
        receita == SumSeq(Col(g, "Lucro_Bruto"))
    IN  [Ano |-> k \div 12,
         Mes |-> (k % 12) + 1,
         Receita_Liquida |-> receita,
         Lucro_Bruto |-> SumSeq(Col(g, "Lucro_Bruto")),
         Quantidade |-> SumSeq(Col(g, "Quantidade")),
         Qtd_Vendas |-> Len(g),
         Ticket_Medio |-> Ticket_Medio(receita, Len(g))]

LinhaMensal(fato, k) ==
    LET g == GrupoMes(fato, k)
        receita == SumSeq(Col(g, "Receita_Liquida"))
    IN  [Ano |-> k \div 12,
         Mes |-> (k % 12) + 1,
         Receita_Liquida |-> receita,
         Lucro_Bruto |-> SumSeq(Col(g, "Lucro_Bruto")),
         Quantidade |-> SumSeq(Col(g, "Quantidade")),
         Qtd_Vendas |-> Len(g),
         Ticket_Medio |-> Ticket_Medio(receita, Len(g))]

\* group keys come out sorted ascending by (Ano, Mes)
ChavesMensais(fato) == SortedSeq({ChaveMes(fato[i]) : i \in DOMAIN fato})

AgregarMensal(fato) ==
    LET ks == ChavesMensais(fato)
    IN  [j \in DOMAIN ks |-> LinhaMensal(fato, ks[j])]

(***************************************************************************)
(* pd.qcut(x, 5, labels=..., duplicates='drop').                           *)
(* Quantile edges use linear interpolation; they are kept exact by scaling *)
(* every value and edge by 5.                                              *)
(***************************************************************************)
RECURSIVE Insert(_, _)
Insert(s, x) ==
    IF s = <<>> \/ x <= Head(s) THEN <<x>> \o s ELSE <<Head(s)>> \o Insert(Tail(s), x)

RECURSIVE SortVals(_)
\* the values of a column in ascending order, duplicates kept
SortVals(s) == IF s = <<>> THEN <<>> ELSE Insert(SortVals(Tail(s)), Head(s))

\* 5 * (the k/5 quantile of the sorted values sv), numpy 'linear' interpolation
Quantile5(sv, k) ==
    LET pos == (Len(sv) - 1) * k
        i == pos \div 5
        r == pos % 5
    IN  IF r = 0 THEN 5 * sv[i + 1]
        ELSE 5 * sv[i + 1] + r * (sv[i + 2] - sv[i + 1])

\* the q + 1 = 6 quantile edges of x, x not empty
QuantileBins(x) == LET sv == SortVals(x) IN [k \in 1..6 |-> Quantile5(sv, k - 1)]

\* _bins_to_cuts: duplicates='drop' keeps the distinct edges
DropDuplicates(bins) ==
    LET u == SortedSeq(Range(bins))
    IN  IF Len(u) < Len(bins) /\ Len(bins) # 2 THEN u ELSE bins

\* bins.searchsorted(x, side='left'), and include_lowest: the lowest edge is in bin 1
BinOf(bins, v) ==
    IF 5 * v = bins[1] THEN 1
    ELSE Cardinality({j \in DOMAIN bins : bins[j] < 5 * v})

\* the number of edges left after the drop; an empty column has only NaN edges
NumBins(x) == IF x = <<>> THEN 1 ELSE Len(DropDuplicates(QuantileBins(x)))

\* "Bin labels must be one fewer than the number of bin edges" (ValueError)
qcut_raises(x, labels) == Len(labels) # NumBins(x) - 1

\* the label of every element of x; defined when qcut does not raise
qcut(x, labels) ==
    LET bins == DropDuplicates(QuantileBins(x))
    IN  [i \in DOMAIN x |-> labels[BinOf(bins, x[i])]]

LabelsR == <<5, 4, 3, 2, 1>>

LabelsFM == <<1, 2, 3, 4, 5>>

(***************************************************************************)
(* RFM Scorer.                                                             *)
(***************************************************************************)
\* astype(str) of a score: its decimal digit
Str(n) ==
    CASE n = 1 -> "1" [] n = 2 -> "2" [] n = 3 -> "3" [] n = 4 -> "4" [] n = 5 -> "5"

\* R_Score.astype(str) + F_Score.astype(str) + M_Score.astype(str), a string of 3 chars
RFM_Score(r, f, m) == <<Str(r), Str(f), Str(m)>>

\* mutant: the first two rules evaluated in the other order
segment_customer_trocado(score) ==
    IF score[1] \in {"3", "4", "5"} /\ score[2] \in {"3", "4"} THEN "Leais"
    ELSE IF score[1] \in {"4", "5"} /\ score[2] \in {"4", "5"} THEN "Champions"
    ELSE IF score[1] \in {"4", "5"} /\ score[2] \in {"1", "2"} THEN "Potencial"
    ELSE IF score[1] \in {"2", "3"} /\ score[2] \in {"2", "3", "4"} THEN "Em Risco"
    ELSE "Perdidos"

segment_customer(score) ==
    IF score[1] \in {"4", "5"} /\ score[2] \in {"4", "5"} THEN "Champions"
    ELSE IF score[1] \in {"3", "4", "5"} /\ score[2] \in {"3", "4"} THEN "Leais"
    ELSE IF score[1] \in {"4", "5"} /\ score[2] \in {"1", "2"} THEN "Potencial"
    ELSE IF score[1] \in {"2", "3"} /\ score[2] \in {"2", "3", "4"} THEN "Em Risco"
    ELSE "Perdidos"

GrupoCliente(fato, c) == SelectSeq(fato, LAMBDA r : r.ID_Cliente = c)

\* mutant: recency counted from the customer's first sale
Recencia_PrimeiraVenda(g, hoje) == hoje - Min({DayNum(g[i].Data_Venda) : i \in DOMAIN g})

\* (hoje - x.max()).days, hoje given as a day number
Recencia(g, hoje) == hoje - Max({DayNum(g[i].Data_Venda) : i \in DOMAIN g})

ChavesClientes(fato) == SortedSeq({fato[i].ID_Cliente : i \in DOMAIN fato})

\* groupby('ID_Cliente').agg(...).reset_index(), columns renamed
ReduzirRFM(fato, hoje) ==
    LET ks == ChavesClientes(fato)
    IN  [j \in DOMAIN ks |->
            LET g == GrupoCliente(fato, ks[j])
            IN  [ID_Cliente |-> ks[j],
                 Recencia |-> Recencia(g, hoje),
                 Frequencia |-> Len(g),
                 Monetario |-> SumSeq(Col(g, "Receita_Liquida"))]]

\* the source line of the first qcut that raises, 0 when none does
LinhaErroRFM(rfm) ==
    IF qcut_raises(Col(rfm, "Recencia"), LabelsR) THEN 84
    ELSE IF qcut_raises(Col(rfm, "Frequencia"), LabelsFM) THEN 85
    ELSE IF qcut_raises(Col(rfm, "Monetario"), LabelsFM) THEN 86
    ELSE 0

\* mutant: customers whose total is not positive are filtered out after scoring
PontuarRFM_SoPositivos(rfm) ==
    LET R == qcut(Col(rfm, "Recencia"), LabelsR)
        F == qcut(Col(rfm, "Frequencia"), LabelsFM)
        M == qcut(Col(rfm, "Monetario"), LabelsFM)
        t == [j \in DOMAIN rfm |->
                LET score == RFM_Score(R[j], F[j], M[j])
                IN  [R_Score |-> R[j], F_Score |-> F[j], M_Score |-> M[j],
                     RFM_Score |-> score,
                     Segmento_RFM |-> segment_customer(score)] @@ rfm[j]]
    IN  SelectSeq(t, LAMBDA r : r.Monetario > 0)

\* the scored and segmented table, when no qcut raises
PontuarRFM(rfm) ==
    LET R == qcut(Col(rfm, "Recencia"), LabelsR)
        F == qcut(Col(rfm, "Frequencia"), LabelsFM)
        M == qcut(Col(rfm, "Monetario"), LabelsFM)
    IN  [j \in DOMAIN rfm |->
            LET score == RFM_Score(R[j], F[j], M[j])
            IN  [R_Score |-> R[j], F_Score |-> F[j], M_Score |-> M[j],
                 RFM_Score |-> score,
                 Segmento_RFM |-> segment_customer(score)] @@ rfm[j]]

(***************************************************************************)
(* ABC Classifier.                                                         *)
(***************************************************************************)
GrupoProduto(fato, p) == SelectSeq(fato, LAMBDA r : r.ID_Produto = p)

ChavesProdutos(fato) == SortedSeq({fato[i].ID_Produto : i \in DOMAIN fato})

\* groupby('ID_Produto').agg(sum, sum).reset_index()
ReduzirProdutos(fato) ==
    LET ks == ChavesProdutos(fato)
    IN  [j \in DOMAIN ks |->
            LET g == GrupoProduto(fato, ks[j])
            IN  [ID_Produto |-> ks[j],
                 Receita_Liquida |-> SumSeq(Col(g, "Receita_Liquida")),
                 Quantidade |-> SumSeq(Col(g, "Quantidade"))]]

\* sort_values('Receita_Liquida', ascending=False) with the default, unstable
\* kind='quicksort': every arrangement in descending revenue is a possible result
OrdensDesc(vp) ==
    {o \in [DOMAIN vp -> DOMAIN vp] :
        /\ \A i, j \in DOMAIN vp : i # j => o[i] # o[j]
        /\ \A i \in DOMAIN vp :
              i < Len(vp) => vp[o[i]].Receita_Liquida >= vp[o[i + 1]].Receita_Liquida}

\* mutant: a running sum that leaves the current row out
cumsum_exclusivo(s) == [i \in DOMAIN s |-> SumSeq(SubSeq(s, 1, i - 1))]

\* mutant: the running sum left out, every row keeps its own revenue
cumsum_ausente(s) == s

\* Series.cumsum()
cumsum(s) == [i \in DOMAIN s |-> SumSeq(SubSeq(s, 1, i))]

Pct_Acumulado(acum, total) == DivRound2(acum, total, 100)

\* mutant: the thresholds taken as strict
classificar_abc_estrito(pct) ==
    IF pct.tipo = "inf" /\ pct.v < 0 THEN "A"
    ELSE IF pct.tipo = "num" /\ pct.v < 8000 THEN "A"
    ELSE IF pct.tipo = "num" /\ pct.v < 9500 THEN "B"
    ELSE "C"

classificar_abc(pct) ==
    IF FloatLe(pct, 8000) THEN "A"
    ELSE IF FloatLe(pct, 9500) THEN "B"
    ELSE "C"

\* lines 116-129 for the arrangement o chosen by the sort
ClassificarABC(vp, o) ==
    LET ord == [i \in DOMAIN vp |-> vp[o[i]]]
        acum == cumsum(Col(ord, "Receita_Liquida"))
        total_receita == SumSeq(Col(ord, "Receita_Liquida"))
    IN  [i \in DOMAIN ord |->
            LET pct == Pct_Acumulado(acum[i], total_receita)
            IN  [Receita_Acumulada |-> acum[i],
                 Pct_Acumulado |-> pct,
                 Classe_ABC |-> classificar_abc(pct)] @@ ord[i]]

(***************************************************************************)
(* Inputs: the ledgers fato_vendas.csv the pipeline is run on.             *)
(***************************************************************************)
Clientes == {1, 2}

Produtos == {1, 2}

\* sale dates: two months of two years
DatasVenda ==
    << [ano |-> 2023, mes |-> 12, dia |-> 31],
       [ano |-> 2024, mes |-> 1, dia |-> 1] >>

\* (net revenue, gross profit, quantity) of a sale; a negative one is a return
PontosPreco ==
    << [r |-> 100, l |-> 40, q |-> 1],
       [r |-> 50, l |-> 10, q |-> 2],
       [r |-> -100, l |-> -40, q |-> 1] >>

\* a sale is chosen as <<customer, product, index of date, index of price point>>
Opcoes == Clientes \X Produtos \X (DOMAIN DatasVenda) \X (DOMAIN PontosPreco)

Rank(o) == ((o[1] * 10 + o[2]) * 10 + o[3]) * 10 + o[4]

RECURSIVE Escolhas(_)
\* the choices of n sales, up to the order of the rows: no step of the pipeline
\* depends on the order of the rows of the ledger
Escolhas(n) ==
    IF n = 0 THEN {<<>>}
    ELSE {Append(so[1], so[2]) :
            so \in {x \in Escolhas(n - 1) \X Opcoes :
                        x[1] = <<>> \/ Rank(x[1][Len(x[1])]) <= Rank(x[2])}}

\* the row of fato_vendas.csv for choice o, as text
LinhaCSV(id, o) ==
    [ID_Venda |-> id,
     ID_Cliente |-> o[1],
     ID_Produto |-> o[2],
     Data_Venda |-> FormatData(DatasVenda[o[3]]),
     Quantidade |-> PontosPreco[o[4]].q,
     Receita_Liquida |-> PontosPreco[o[4]].r,
     Lucro_Bruto |-> PontosPreco[o[4]].l]

Ledgers ==
    UNION {{[i \in DOMAIN e |-> LinhaCSV(i, e[i])] : e \in Escolhas(n)} : n \in 0..MaxVendas}

\* the wall clock when the first run starts, as a date; relogio counts days since
Hoje0 == [ano |-> 2024, mes |-> 1, dia |-> 3]

(***************************************************************************)
(* State.                                                                  *)
(***************************************************************************)
VARIABLES
    disco,            \* the files of 01_data/processed written or read by the pipeline
    fato_vendas,      \* self.fato_vendas
    vendas_mensais,   \* self.vendas_mensais
    rfm_clientes,     \* self.rfm_clientes
    abc_produtos,     \* self.abc_produtos
    pc,               \* position of ETLPipeline.run
    retorno,          \* return value of run: "None" while running, "True", "False"
    erro,             \* the exception caught by a stage: its class and source line
    relogio,          \* days the wall clock advanced since Hoje0
    ordem_sort,       \* the arrangement the sort of line 116 gives for this ledger
    estagios,         \* the stages run has called so far, each with what it returned
    orq,              \* run_pipeline.main: loop position, success_count, exit status
    entrada,          \* argument of a function studied on its own (segment, class)
    saida             \* its result

vars ==
    <<disco, fato_vendas, vendas_mensais, rfm_clientes, abc_produtos, pc, retorno,
      erro, relogio, ordem_sort, estagios, orq, entrada, saida>>

funVars == <<entrada, saida>>

pipeVars ==
    <<disco, fato_vendas, vendas_mensais, rfm_clientes, abc_produtos, pc, retorno,
      erro, relogio, ordem_sort, estagios>>

Nada == [tipo |-> "nada"]

SemErro == [classe |-> "", linha |-> 0]

\* pipeline.py started on its own, not by run_pipeline.py
SemOrquestrador ==
    [fase |-> "ausente", passo |-> 0, iniciados |-> 0, success_count |-> 0,
     status |-> "None"]

\* run has called stage e and it returned b
Chamada(e, b) == [estagio |-> e, retornou |-> b]

\* a pipeline object just constructed over a directory holding the ledger f
Construido(f) ==
    /\ disco = [fato_vendas |-> f, vendas_mensais |-> Ausente,
                rfm_clientes |-> Ausente, abc_produtos |-> Ausente]
    /\ fato_vendas = Ausente
    /\ vendas_mensais = Ausente
    /\ rfm_clientes = Ausente
    /\ abc_produtos = Ausente
    /\ pc = "inicio"
    /\ retorno = "None"
    /\ erro = SemErro
    /\ relogio = 0
    /\ ordem_sort = <<>>
    /\ estagios = <<>>

Init ==
    /\ \E f \in {Ausente} \cup {Tabela(l) : l \in Ledgers} : Construido(f)
    /\ entrada = Nada
    /\ saida = Nada
    /\ orq = SemOrquestrador

\* pd.Timestamp.now(), as a day number
Hoje == DayNum(Hoje0) + relogio

(***************************************************************************)
(* ETLPipeline.extract, and run's early return when it fails.  Only        *)
(* fato_vendas is modelled; the dimension tables are not used afterwards.  *)
(***************************************************************************)
\* mutant: run goes on to transform when extract returned False
Extract_SemRetorno ==
    /\ pc = "inicio"
    /\ IF disco.fato_vendas.def
       THEN /\ fato_vendas' = Tabela(read_csv_fato(disco.fato_vendas.linhas))
            /\ estagios' = Append(estagios, Chamada("extract", TRUE))
            /\ UNCHANGED erro
       ELSE /\ erro' = [classe |-> "FileNotFoundError", linha |-> 37]
            /\ estagios' = Append(estagios, Chamada("extract", FALSE))
            /\ UNCHANGED fato_vendas
    /\ pc' = "extraido"
    /\ UNCHANGED <<disco, vendas_mensais, rfm_clientes, abc_produtos, retorno, relogio,
                   ordem_sort, funVars, orq>>

Extract ==
    /\ pc = "inicio"
    /\ IF disco.fato_vendas.def
       THEN /\ fato_vendas' = Tabela(read_csv_fato(disco.fato_vendas.linhas))
            /\ estagios' = Append(estagios, Chamada("extract", TRUE))
            /\ pc' = "extraido"
            /\ UNCHANGED <<retorno, erro>>
       ELSE /\ erro' = [classe |-> "FileNotFoundError", linha |-> 37]
            /\ estagios' = Append(estagios, Chamada("extract", FALSE))
            /\ retorno' = "False"
            /\ pc' = "fim"
            /\ UNCHANGED fato_vendas
    /\ UNCHANGED <<disco, vendas_mensais, rfm_clientes, abc_produtos, relogio, ordem_sort,
                   funVars, orq>>

(***************************************************************************)
(* ETLPipeline.transform, and run's early return when it fails.            *)
(***************************************************************************)
\* an empty ledger: whether the .dt accessor of line 52 accepts the empty date
\* column depends on the dtype read_csv gave it; if it does not, nothing is assigned
TransformSemDatas ==
    /\ fato_vendas.linhas = <<>>
    /\ erro' = [classe |-> "AttributeError", linha |-> 52]
    /\ estagios' = Append(estagios, Chamada("transform", FALSE))
    /\ retorno' = "False"
    /\ pc' = "fim"
    /\ UNCHANGED <<fato_vendas, vendas_mensais, rfm_clientes, abc_produtos, ordem_sort>>

\* a qcut raises: the columns and the monthly table are already assigned
TransformFalha ==
    LET fato == NormalizarTabela(fato_vendas.linhas)
        linha == LinhaErroRFM(ReduzirRFM(fato, Hoje))
    IN  /\ linha # 0
        /\ fato_vendas' = Tabela(fato)
        /\ vendas_mensais' = Tabela(AgregarMensal(fato))
        /\ erro' = [classe |-> "ValueError", linha |-> linha]
        /\ estagios' = Append(estagios, Chamada("transform", FALSE))
        /\ retorno' = "False"
        /\ pc' = "fim"
        /\ UNCHANGED <<rfm_clientes, abc_produtos, ordem_sort>>

\* the sort is unstable but it is a function of its input: which arrangement of
\* equal revenues it gives is open until the first sort of this ledger, and the same
\* in every later run
TransformOk ==
    LET fato == NormalizarTabela(fato_vendas.linhas)
        rfm == ReduzirRFM(fato, Hoje)
        vp == ReduzirProdutos(fato)
    IN  /\ LinhaErroRFM(rfm) = 0
        /\ fato_vendas' = Tabela(fato)
        /\ vendas_mensais' = Tabela(AgregarMensal(fato))
        /\ rfm_clientes' = Tabela(PontuarRFM(rfm))
        /\ \E o \in OrdensDesc(vp) :
              /\ ordem_sort \in {<<>>, o}
              /\ ordem_sort' = o
              /\ abc_produtos' = Tabela(ClassificarABC(vp, o))
        /\ estagios' = Append(estagios, Chamada("transform", TRUE))
        /\ pc' = "transformado"
        /\ UNCHANGED <<retorno, erro>>

Transform ==
    /\ pc = "extraido"
    /\ (TransformSemDatas \/ TransformFalha \/ TransformOk)
    /\ UNCHANGED <<disco, relogio, funVars, orq>>

(***************************************************************************)
(* ETLPipeline.load, and the end of run.  output_dir is input_dir, so      *)
(* fato_vendas.csv is overwritten with the derived columns.                *)
(***************************************************************************)
\* the source lines of the statements of load that can raise, in order: the four
\* to_csv and the statistics printed after them
LinhasLoad == <<145, 146, 147, 150, 155>>

\* the directory after the first k to_csv of load
Gravados(k) ==
    [fato_vendas |-> IF k >= 4 THEN Tabela(to_csv_fato(fato_vendas.linhas))
                     ELSE disco.fato_vendas,
     vendas_mensais |-> IF k >= 1 THEN vendas_mensais ELSE disco.vendas_mensais,
     rfm_clientes |-> IF k >= 2 THEN rfm_clientes ELSE disco.rfm_clientes,
     abc_produtos |-> IF k >= 3 THEN abc_produtos ELSE disco.abc_produtos]

Load ==
    /\ pc = "transformado"
    /\ disco' = Gravados(4)
    /\ estagios' = Append(estagios, Chamada("load", TRUE))
    /\ retorno' = "True"
    /\ pc' = "fim"
    /\ UNCHANGED <<fato_vendas, vendas_mensais, rfm_clientes, abc_produtos, erro, relogio,
                   ordem_sort, funVars, orq>>

\* a statement of load raises (the file cannot be written, the terminal cannot
\* encode the statistics): the files written before it stay, load returns False
LoadFalha ==
    /\ pc = "transformado"
    /\ \E k \in 0..4 :
          /\ disco' = Gravados(k)
          /\ erro' = [classe |-> "OSError", linha |-> LinhasLoad[k + 1]]
    /\ estagios' = Append(estagios, Chamada("load", FALSE))
    /\ retorno' = "False"
    /\ pc' = "fim"
    /\ UNCHANGED <<fato_vendas, vendas_mensais, rfm_clientes, abc_produtos, relogio,
                   ordem_sort, funVars, orq>>

(***************************************************************************)
(* The environment: the script is started again (a new process and a new   *)
(* ETLPipeline object), and time passes between runs.                      *)
(***************************************************************************)
NovaExecucao ==
    /\ pc = "fim"
    /\ fato_vendas' = Ausente
    /\ vendas_mensais' = Ausente
    /\ rfm_clientes' = Ausente
    /\ abc_produtos' = Ausente
    /\ pc' = "inicio"
    /\ retorno' = "None"
    /\ erro' = SemErro
    /\ estagios' = <<>>
    /\ UNCHANGED <<disco, relogio, ordem_sort, funVars, orq>>

Tick ==
    /\ pc = "fim"
    /\ relogio < MaxTicks
    /\ relogio' = relogio + 1
    /\ UNCHANGED <<disco, fato_vendas, vendas_mensais, rfm_clientes, abc_produtos, pc,
                   retorno, erro, ordem_sort, estagios, funVars, orq>>

\* the pipeline where every write of load succeeds
Next == Extract \/ Transform \/ Load \/ NovaExecucao \/ Tick

Spec == Init /\ [][Next]_vars

\* the pipeline where a statement of load may raise; the clock stands still
NextComFalhas == Extract \/ Transform \/ Load \/ LoadFalha \/ NovaExecucao

SpecComFalhas == Init /\ [][NextComFalhas]_vars

(***************************************************************************)
(* segment_customer on its own: every triple of scores.                    *)
(***************************************************************************)
Scores == 1..5

InitSegmento ==
    /\ Construido(Ausente)
    /\ entrada \in [tipo : {"rfm"}, R : Scores, F : Scores, M : Scores]
    /\ saida = Nada
    /\ orq = SemOrquestrador

\* lines 88-92 and 107 for one customer
Segmentar ==
    /\ entrada.tipo = "rfm"
    /\ saida = Nada
    /\ LET score == RFM_Score(entrada.R, entrada.F, entrada.M)
       IN  saida' = [tipo |-> "rfm", RFM_Score |-> score,
                     Segmento_RFM |-> segment_customer(score)]
    /\ UNCHANGED <<entrada, pipeVars, orq>>

SpecSegmento == InitSegmento /\ [][Segmentar]_vars

(***************************************************************************)
(* Pct_Acumulado and classificar_abc on their own: one row of the ranked   *)
(* table, given its cumulative revenue and the total revenue.              *)
(***************************************************************************)
Acumulados == {0, 1000, 4001} \cup (795..805) \cup (945..955) \cup (3195..3205)

Totais == {0, 1000, 4001}

InitClasse ==
    /\ Construido(Ausente)
    /\ entrada \in [tipo : {"abc"}, acum : Acumulados, total : Totais]
    /\ saida = Nada
    /\ orq = SemOrquestrador

\* lines 119 and 129 for one row
Classificar ==
    /\ entrada.tipo = "abc"
    /\ saida = Nada
    /\ LET pct == Pct_Acumulado(entrada.acum, entrada.total)
       IN  saida' = [tipo |-> "abc", Pct_Acumulado |-> pct,
                     Classe_ABC |-> classificar_abc(pct)]
    /\ UNCHANGED <<entrada, pipeVars, orq>>

SpecClasse == InitClasse /\ [][Classificar]_vars

(***************************************************************************)
(* The three pd.qcut of lines 84-86 on their own: one metric column of the *)
(* per-customer table.                                                     *)
(***************************************************************************)
MaxClientes == 5      \* rows of the per-customer table

Metricas == {"Recencia", "Frequencia", "Monetario"}

\* values of a metric: days, a count of sales (never 0), a sum of revenue
ValoresDe(metrica) ==
    CASE metrica = "Recencia" -> 0..3
      [] metrica = "Frequencia" -> 1..4
      [] metrica = "Monetario" -> {-100, 0, 50, 100}

ColunasDe(metrica) == UNION {[1..n -> ValoresDe(metrica)] : n \in 1..MaxClientes}

\* mutant: recency labelled like frequency and monetary
LabelsDe_direto(metrica) == LabelsFM

\* the labels each qcut is given
LabelsDe(metrica) == IF metrica = "Recencia" THEN LabelsR ELSE LabelsFM

InitScore ==
    /\ Construido(Ausente)
    /\ \E m \in Metricas : \E x \in ColunasDe(m) :
          entrada = [tipo |-> "qcut", metrica |-> m, x |-> x]
    /\ saida = Nada
    /\ orq = SemOrquestrador

\* one of lines 84, 85, 86: the scores of the column, or the ValueError
Pontuar ==
    /\ entrada.tipo = "qcut"
    /\ saida = Nada
    /\ LET labels == LabelsDe(entrada.metrica)
       IN  saida' = IF qcut_raises(entrada.x, labels)
                    THEN [tipo |-> "qcut", raised |-> TRUE, scores |-> <<>>]
                    ELSE [tipo |-> "qcut", raised |-> FALSE,
                          scores |-> qcut(entrada.x, labels)]
    /\ UNCHANGED <<entrada, pipeVars, orq>>

SpecScore == InitScore /\ [][Pontuar]_vars

(***************************************************************************)
(* The normalizer (lines 52-57) on its own, over sale tables that hold     *)
(* sales of zero net revenue.                                              *)
(***************************************************************************)
MaxLinhas == 2        \* rows of the sale table given to the normalizer

\* (net revenue, gross profit, quantity): zero revenue with zero, positive and
\* negative profit, and an ordinary sale
PontosPrecoZero ==
    << [r |-> 0, l |-> 0, q |-> 1],
       [r |-> 0, l |-> 40, q |-> 1],
       [r |-> 0, l |-> -40, q |-> 1],
       [r |-> 100, l |-> 40, q |-> 1] >>

OpcoesZero == Clientes \X (DOMAIN DatasVenda) \X (DOMAIN PontosPrecoZero)

\* the sale of choice o as extract holds it in memory
VendaZero(id, o) ==
    [ID_Venda |-> id,
     ID_Cliente |-> o[1],
     ID_Produto |-> 1,
     Data_Venda |-> DatasVenda[o[2]],
     Quantidade |-> PontosPrecoZero[o[3]].q,
     Receita_Liquida |-> PontosPrecoZero[o[3]].r,
     Lucro_Bruto |-> PontosPrecoZero[o[3]].l]

TabelasZero ==
    UNION {{[i \in 1..n |-> VendaZero(i, e[i])] : e \in [1..n -> OpcoesZero]} :
              n \in 1..MaxLinhas}

InitNormalizador ==
    /\ Construido(Ausente)
    /\ entrada \in [tipo : {"vendas"}, fato : TabelasZero]
    /\ saida = Nada
    /\ orq = SemOrquestrador

\* lines 52-57 on the table: four vectorised column assignments, none of which raises
NormalizarVendas ==
    /\ entrada.tipo = "vendas"
    /\ saida = Nada
    /\ saida' = [tipo |-> "vendas", fato |-> NormalizarTabela(entrada.fato)]
    /\ UNCHANGED <<entrada, pipeVars, orq>>

SpecNormalizador == InitNormalizador /\ [][NormalizarVendas]_vars

(***************************************************************************)
(* A whole run (extract, transform, load) over a ledger one cell of which  *)
(* is malformed.  The file is given as its rows, the malformed cell        *)
(* holding its text, together with the place of that cell.                 *)
(***************************************************************************)
\* an empty or unparseable sale date, a non-numeric net revenue or gross profit
CelulasMalformadas ==
    {[coluna |-> "Data_Venda", texto |-> ""],
     [coluna |-> "Data_Venda", texto |-> "abc"],
     [coluna |-> "Receita_Liquida", texto |-> "abc"],
     [coluna |-> "Lucro_Bruto", texto |-> "abc"]}

\* the ledgers that are damaged: at least two sales, no returns, one product per
\* customer
LedgersSaos ==
    {l \in Ledgers :
        /\ Len(l) >= 2
        /\ \A i \in DOMAIN l : l[i].ID_Produto = l[i].ID_Cliente /\ l[i].Receita_Liquida > 0}

Danificar(l, i, c) == [l EXCEPT ![i] = [@ EXCEPT ![c.coluna] = c.texto]]

\* the dtype read_csv gives a column: a date column with a text that is not a date
\* stays object, an empty date is NaT; a numeric column with a text is object
dtype(e, coluna) ==
    IF e.coluna # coluna THEN (IF coluna = "Data_Venda" THEN "datetime64" ELSE "int64")
    ELSE IF coluna = "Data_Venda" /\ e.texto = "" THEN "datetime64"
    ELSE "object"

SemLinha(s, i) == SubSeq(s, 1, i - 1) \o SubSeq(s, i + 1, Len(s))

\* the per-customer reduction when the date of row i is NaT: max skips NaT, count
\* and sum do not; for the customers that have a dated sale
ReduzirRFM_NaT(linhas, i, hoje) ==
    LET datadas == read_csv_fato(SemLinha(linhas, i))
        ks == ChavesClientes(datadas)
    IN  [j \in DOMAIN ks |->
            LET g == GrupoCliente(linhas, ks[j])
            IN  [ID_Cliente |-> ks[j],
                 Recencia |-> Recencia(GrupoCliente(datadas, ks[j]), hoje),
                 Frequencia |-> Len(g),
                 Monetario |-> SumSeq(Col(g, "Receita_Liquida"))]]

\* what a run leaves: the value run returned, the exception it let through to its
\* caller ("" for none), the exception a stage caught, the tables transform assigned
\* and whether load wrote the artifacts
Resultado(ret, classe, linha, vm, rfm, abc, gravou) ==
    [tipo |-> "run", retorno |-> ret, propagada |-> "",
     erro |-> [classe |-> classe, linha |-> linha],
     vendas_mensais |-> vm, rfm_clientes |-> rfm, abc_produtos |-> abc,
     gravou |-> gravou]

InitMalformado ==
    /\ Construido(Ausente)
    /\ \E l \in LedgersSaos : \E i \in DOMAIN l : \E c \in CelulasMalformadas :
          entrada = [tipo |-> "ledger", linhas |-> Danificar(l, i, c), linha |-> i,
                     coluna |-> c.coluna, texto |-> c.texto]
    /\ saida = Nada
    /\ orq = SemOrquestrador

\* run: extract reads the file whatever its cells hold; transform raises at the
\* first statement that meets a column of the wrong dtype, or goes on without the
\* undated sale where pandas skips NaT/NaN (groupby keys, max); load writes
ExecutarMalformado ==
    /\ entrada.tipo = "ledger"
    /\ saida = Nada
    /\ IF dtype(entrada, "Data_Venda") = "object"
       THEN saida' = Resultado("False", "AttributeError", 52, Ausente, Ausente, Ausente,
                               FALSE)
       ELSE IF "object" \in {dtype(entrada, "Lucro_Bruto"), dtype(entrada, "Receita_Liquida")}
       THEN saida' = Resultado("False", "TypeError", 55, Ausente, Ausente, Ausente, FALSE)
       ELSE LET datadas == read_csv_fato(SemLinha(entrada.linhas, entrada.linha))
                vm == Tabela(AgregarMensal(NormalizarTabela(datadas)))
                rfm == ReduzirRFM_NaT(entrada.linhas, entrada.linha, Hoje)
                linha == LinhaErroRFM(rfm)
                vp == ReduzirProdutos(entrada.linhas)
            IN  IF linha # 0
                THEN saida' = Resultado("False", "ValueError", linha, vm, Ausente,
                                        Ausente, FALSE)
                ELSE /\ ChavesClientes(datadas) = ChavesClientes(entrada.linhas)
                     /\ \E o \in OrdensDesc(vp) :
                           saida' = Resultado("True", "", 0, vm, Tabela(PontuarRFM(rfm)),
                                              Tabela(ClassificarABC(vp, o)), TRUE)
    /\ UNCHANGED <<entrada, pipeVars, orq>>

SpecMalformado == InitMalformado /\ [][ExecutarMalformado]_vars

(***************************************************************************)
(* The pipeline run on the ledger of three sales (A, X, 100, 40, D0),      *)
(* (A, X, 200, 80, D0 + 1), (B, Y, 50, 10, D0), D0 and D0 + 1 in one       *)
(* month: every choice of the ids, of D0 and of the order of the rows.     *)
(***************************************************************************)
\* D0: a day of November or December 2023 followed by a day of the same month
DiasD0 == {[ano |-> 2023, mes |-> m, dia |-> d] : m \in {11, 12}, d \in 1..29}

DiaSeguinte(d) == [d EXCEPT !.dia = @ + 1]

\* the three sales, in the order given
VendasExemplo(e) ==
    << [ID_Cliente |-> e.A, ID_Produto |-> e.X, Data_Venda |-> FormatData(e.D0),
        Quantidade |-> 1, Receita_Liquida |-> 100, Lucro_Bruto |-> 40],
       [ID_Cliente |-> e.A, ID_Produto |-> e.X,
        Data_Venda |-> FormatData(DiaSeguinte(e.D0)),
        Quantidade |-> 1, Receita_Liquida |-> 200, Lucro_Bruto |-> 80],
       [ID_Cliente |-> e.B, ID_Produto |-> e.Y, Data_Venda |-> FormatData(e.D0),
        Quantidade |-> 1, Receita_Liquida |-> 50, Lucro_Bruto |-> 10] >>

Permutacoes(n) == {p \in [1..n -> 1..n] : \A i, j \in 1..n : i # j => p[i] # p[j]}

\* fato_vendas.csv holding the three sales arranged by p
LedgerExemplo(e, p) ==
    [i \in 1..3 |-> [ID_Venda |-> i] @@ VendasExemplo(e)[p[i]]]

InitExemplo ==
    /\ \E a \in Clientes, x \in Produtos, d \in DiasD0, p \in Permutacoes(3) :
          \E b \in Clientes \ {a}, y \in Produtos \ {x} :
              /\ entrada = [tipo |-> "exemplo", A |-> a, B |-> b, X |-> x, Y |-> y, D0 |-> d]
              /\ Construido(Tabela(LedgerExemplo(entrada, p)))
    /\ saida = Nada
    /\ orq = SemOrquestrador

SpecExemplo == InitExemplo /\ [][Next]_vars

(***************************************************************************)
(* The query layer (05_api/main.py): GET /vendas/mensais over the          *)
(* directory the pipeline wrote.  entrada is the request, saida the        *)
(* response.                                                               *)
(***************************************************************************)
\* the months in which the stored ledger may have sales
MesesAPI ==
    << [ano |-> 2022, mes |-> 12], [ano |-> 2023, mes |-> 1],
       [ano |-> 2023, mes |-> 2], [ano |-> 2024, mes |-> 1] >>

VendaAPI(c, m, dia, r, l) ==
    [ID_Cliente |-> c, ID_Produto |-> 1,
     Data_Venda |-> FormatData([ano |-> m.ano, mes |-> m.mes, dia |-> dia]),
     Quantidade |-> 1, Receita_Liquida |-> r, Lucro_Bruto |-> l]

\* a ledger with sales in the months ms (ascending, not empty) on which transform
\* succeeds: customer 1 buys once, customer 2 every month and once more
LedgerAPI(ms) ==
    LET vendas == <<VendaAPI(1, ms[1], 1, 100, 40)>>
                  \o [j \in DOMAIN ms |-> VendaAPI(2, ms[j], 2, 30, 10)]
                  \o <<VendaAPI(2, ms[Len(ms)], 3, 30, 10)>>
    IN  [i \in DOMAIN vendas |-> [ID_Venda |-> i] @@ vendas[i]]

\* the directory after a successful run over ledger l (lines 145-150 of pipeline.py)
DiretorioApos(l) ==
    LET fato == NormalizarTabela(read_csv_fato(l))
        vp == ReduzirProdutos(fato)
    IN  [fato_vendas |-> Tabela(to_csv_fato(fato)),
         vendas_mensais |-> Tabela(AgregarMensal(fato)),
         rfm_clientes |-> Tabela(PontuarRFM(ReduzirRFM(fato, DayNum(Hoje0)))),
         abc_produtos |-> Tabela(ClassificarABC(vp, CHOOSE o \in OrdensDesc(vp) : TRUE))]

DiretorioVazio ==
    [fato_vendas |-> Ausente, vendas_mensais |-> Ausente, rfm_clientes |-> Ausente,
     abc_produtos |-> Ausente]

\* a query parameter: not given, or given with value v
NaoDado == [dado |-> FALSE, v |-> 0]

Dado(v) == [dado |-> TRUE, v |-> v]

ParametrosAno == {NaoDado} \cup {Dado(v) : v \in {0, 2023, 2024, 2025}}

ParametrosLimit == {NaoDado} \cup {Dado(v) : v \in {-1, 0, 1, 2, 12, 100, 101}}

\* limit: int = Query(default=12, le=100)
limit_default == 12

limit_le == 100

\* "if ano:" -- None and 0 are both falsy
Truthy(p) == p.dado /\ p.v # 0

\* DataFrame.head(n): the first n rows, for n < 0 all but the last -n rows
head(t, n) ==
    IF n >= 0 THEN SubSeq(t, 1, Min({n, Len(t)}))
    ELSE SubSeq(t, 1, Max({Len(t) + n, 0}))

\* sort_values(['Ano', 'Mes'], ascending=False) of a table with one row per month
sort_values_desc(t) ==
    LET ks == SortedSeq({ChaveMes(t[i]) : i \in DOMAIN t})
    IN  [i \in DOMAIN t |->
            t[CHOOSE j \in DOMAIN t : ChaveMes(t[j]) = ks[Len(ks) + 1 - i]]]

\* VendaMensal(ano=..., mes=..., receita=..., ...)
VendaMensal(row) ==
    [ano |-> row.Ano, mes |-> row.Mes, receita |-> row.Receita_Liquida,
     lucro |-> row.Lucro_Bruto, qtd_vendas |-> row.Qtd_Vendas,
     ticket_medio |-> row.Ticket_Medio]

Resposta(status, corpo) == [tipo |-> "resposta", status |-> status, corpo |-> corpo]

\* carregar_dados: the four read_csv, any of which may raise
carregar_dados_raises ==
    ~(disco.fato_vendas.def /\ disco.rfm_clientes.def /\ disco.vendas_mensais.def)

InitAPI ==
    /\ \E S \in SUBSET (DOMAIN MesesAPI) :
          disco = IF S = {} THEN DiretorioVazio
                  ELSE LET idx == SortedSeq(S)
                       IN  DiretorioApos(LedgerAPI([j \in DOMAIN idx |-> MesesAPI[idx[j]]]))
    /\ fato_vendas = Ausente
    /\ vendas_mensais = Ausente
    /\ rfm_clientes = Ausente
    /\ abc_produtos = Ausente
    /\ pc = "fim"
    /\ retorno = "None"
    /\ erro = SemErro
    /\ relogio = 0
    /\ ordem_sort = <<>>
    /\ estagios = <<>>
    /\ entrada \in [tipo : {"GET /vendas/mensais"}, ano : ParametrosAno,
                    limit : ParametrosLimit]
    /\ saida = Nada
    /\ orq = SemOrquestrador

get_vendas_mensais ==
    /\ entrada.tipo = "GET /vendas/mensais"
    /\ saida = Nada
    /\ LET limit == IF entrada.limit.dado THEN entrada.limit.v ELSE limit_default
       IN  saida' =
             IF limit > limit_le THEN Resposta(422, <<>>)
             ELSE IF carregar_dados_raises THEN Resposta(500, <<>>)
             ELSE LET todas == disco.vendas_mensais.linhas
                      filtradas == IF Truthy(entrada.ano)
                                   THEN SelectSeq(todas, LAMBDA r : r.Ano = entrada.ano.v)
                                   ELSE todas
                      cortadas == head(sort_values_desc(filtradas), limit)
                  IN  Resposta(200, [i \in DOMAIN cortadas |-> VendaMensal(cortadas[i])])
    /\ UNCHANGED <<entrada, pipeVars, orq>>

SpecAPI == InitAPI /\ [][get_vendas_mensais]_vars

(***************************************************************************)
(* The orchestrator (run_pipeline.py): main runs the three scripts as      *)
(* subprocesses.  orq.fase is where main stands: checking dependencies,    *)
(* at the top of the loop before step orq.passo, waiting for the ETL       *)
(* subprocess, or exited.  The ETL subprocess is the pipeline above.       *)
(***************************************************************************)
\* steps of lines 87-103: script and whether it is required
steps ==
    << [script |-> "01_data/synthetic_generator.py", required |-> TRUE],
       [script |-> "02_etl/pipeline.py", required |-> TRUE],
       [script |-> "03_ml/models_training.py", required |-> FALSE] >>

\* what the data generation script may leave for fato_vendas.csv when it exits 0
SaidasGerador == {Ausente} \cup {Tabela(l) : l \in LedgersSaos}

InitOrquestrador ==
    /\ disco = DiretorioVazio
    /\ fato_vendas = Ausente
    /\ vendas_mensais = Ausente
    /\ rfm_clientes = Ausente
    /\ abc_produtos = Ausente
    /\ pc = "parado"
    /\ retorno = "None"
    /\ erro = SemErro
    /\ relogio = 0
    /\ ordem_sort = <<>>
    /\ estagios = <<>>
    /\ entrada = Nada
    /\ saida = Nada
    /\ orq = [fase |-> "dependencias", passo |-> 0, iniciados |-> 0, success_count |-> 0,
              status |-> "None"]

\* the branches of lines 111-117 once run_step has returned ok for step orq.passo
AposPasso(ok) ==
    IF ok
    THEN [orq EXCEPT !.fase = "laco", !.passo = @ + 1, !.iniciados = orq.passo,
                     !.success_count = @ + 1]
    ELSE IF steps[orq.passo].required
    THEN [orq EXCEPT !.fase = "saiu", !.iniciados = orq.passo, !.status = "1"]
    ELSE [orq EXCEPT !.fase = "laco", !.passo = @ + 1, !.iniciados = orq.passo]

\* lines 82-84, and the loop entered
CheckDependencies ==
    /\ orq.fase = "dependencias"
    /\ \E ok \in BOOLEAN :
          orq' = IF ok THEN [orq EXCEPT !.fase = "laco", !.passo = 1]
                 ELSE [orq EXCEPT !.fase = "saiu", !.status = "1"]
    /\ UNCHANGED <<pipeVars, funVars>>

\* step 1: the generator exits 0, leaving a ledger or none, or exits with an error
PassoGeracao ==
    /\ orq.fase = "laco"
    /\ orq.passo = 1
    /\ \/ \E f \in SaidasGerador :
             /\ disco' = [disco EXCEPT !.fato_vendas = f]
             /\ orq' = AposPasso(TRUE)
       \/ /\ orq' = AposPasso(FALSE)
          /\ UNCHANGED disco
    /\ UNCHANGED <<fato_vendas, vendas_mensais, rfm_clientes, abc_produtos, pc, retorno,
                   erro, relogio, ordem_sort, estagios, funVars>>

\* step 2: subprocess.run starts pipeline.py (a new ETLPipeline), or cannot
PassoETLInicia ==
    /\ orq.fase = "laco"
    /\ orq.passo = 2
    /\ \/ /\ orq' = [orq EXCEPT !.fase = "subprocesso", !.iniciados = 2]
          /\ pc' = "inicio"
       \/ /\ orq' = AposPasso(FALSE)
          /\ UNCHANGED pc
    /\ UNCHANGED <<disco, fato_vendas, vendas_mensais, rfm_clientes, abc_produtos, retorno,
                   erro, relogio, ordem_sort, estagios, funVars>>

\* step 2: pipeline.py ends.  Its __main__ discards what run returned, so the exit
\* status is 0 and run_step returns True whatever the stages returned
PassoETLTermina ==
    /\ orq.fase = "subprocesso"
    /\ pc = "fim"
    /\ orq' = AposPasso(TRUE)
    /\ UNCHANGED <<pipeVars, funVars>>

\* step 3: the training script exits 0 or with an error
PassoML ==
    /\ orq.fase = "laco"
    /\ orq.passo = 3
    /\ \E ok \in BOOLEAN : orq' = AposPasso(ok)
    /\ UNCHANGED <<pipeVars, funVars>>

\* lines 119-147: the summary, and main returns
Resumo ==
    /\ orq.fase = "laco"
    /\ orq.passo = Len(steps) + 1
    /\ orq' = [orq EXCEPT !.fase = "saiu", !.status = "0"]
    /\ UNCHANGED <<pipeVars, funVars>>

NextOrquestrador ==
    \/ CheckDependencies
    \/ PassoGeracao
    \/ PassoETLInicia
    \/ Extract
    \/ Transform
    \/ Load
    \/ LoadFalha
    \/ PassoETLTermina
    \/ PassoML
    \/ Resumo

SpecOrquestrador == InitOrquestrador /\ [][NextOrquestrador]_vars

(***************************************************************************)
(* Lines 116-130 on their own: the ranking, the running sum, the           *)
(* percentages and the classes of one per-product table, as the groupby of *)
(* lines 111-114 hands it over (one row per product, in product id order). *)
(***************************************************************************)
MaxProdutos == 3      \* rows of the per-product table

\* summed revenue of one product: returns make it zero or negative
SomasProduto == {-100, -10, 0, 5, 15, 80, 100}

TabelasProduto ==
    UNION {{[j \in 1..n |-> [ID_Produto |-> j, Receita_Liquida |-> s[j], Quantidade |-> 1]] :
                s \in [1..n -> SomasProduto]} : n \in 1..MaxProdutos}

InitRanking ==
    /\ Construido(Ausente)
    /\ entrada \in [tipo : {"ranking"}, vp : TabelasProduto]
    /\ saida = Nada
    /\ orq = SemOrquestrador

\* lines 116-130 for one arrangement the sort may give
Ranquear ==
    /\ entrada.tipo = "ranking"
    /\ saida = Nada
    /\ \E o \in OrdensDesc(entrada.vp) :
          saida' = [tipo |-> "ranking", linhas |-> ClassificarABC(entrada.vp, o)]
    /\ UNCHANGED <<entrada, pipeVars, orq>>

SpecRanking == InitRanking /\ [][Ranquear]_vars

(***************************************************************************)
(* Properties.                                                             *)
(***************************************************************************)
Receitas(tab) == SumSeq(Col(tab, "Receita_Liquida"))

\* the sale records of the ledger on disk, base columns only
RegistrosBase(arq) ==
    [i \in DOMAIN arq.linhas |-> Projetar(arq.linhas[i], ColunasBase)]

\* the stage transform has returned in the current run
TransformRetornou == pc \in {"transformado", "fim"} /\ fato_vendas.def

\* C1 -- Conservation: once transform has built the monthly table, the sum of its
\* net revenue column equals the sum of net revenue over all sale records read.
C1_Conservacao ==
    vendas_mensais.def =>
        Receitas(vendas_mensais.linhas) = Receitas(disco.fato_vendas.linhas)

C1_Witness ==
    /\ vendas_mensais.def
    /\ Len(vendas_mensais.linhas) = 2
    /\ Len(disco.fato_vendas.linhas) = 3
    /\ Receitas(vendas_mensais.linhas) # 0

\* C2 -- Artifact isolation, as claimed: when the RFM reduction fails in transform,
\* the run still ends with the monthly aggregate and the ABC table written.
C2_Isolamento ==
    (pc = "fim" /\ erro.linha \in {84, 85, 86}) =>
        (disco.vendas_mensais.def /\ disco.abc_produtos.def)

\* some metric of the per-customer reduction has coinciding quantile boundaries
Degenerada(rfm) ==
    \E c \in {"Recencia", "Frequencia", "Monetario"} : NumBins(Col(rfm, c)) < 6

\* C3 -- Degenerate scoring, as claimed: when quantile boundaries of a metric
\* coincide, transform does not fail, every customer is scored, and customers
\* with equal values of a metric get equal scores of that metric.
C3_PontuacaoDegenerada ==
    LET rfm == ReduzirRFM(fato_vendas.linhas, Hoje)
    IN  (TransformRetornou /\ fato_vendas.linhas # <<>> /\ Degenerada(rfm)) =>
            /\ erro = SemErro
            /\ rfm_clientes.def
            /\ Len(rfm_clientes.linhas) = Len(rfm)
            /\ \A i, j \in DOMAIN rfm_clientes.linhas :
                  LET a == rfm_clientes.linhas[i]
                      b == rfm_clientes.linhas[j]
                  IN  /\ a.Recencia = b.Recencia => a.R_Score = b.R_Score
                      /\ a.Frequencia = b.Frequencia => a.F_Score = b.F_Score
                      /\ a.Monetario = b.Monetario => a.M_Score = b.M_Score

\* C4 -- Monotonic ranking, as claimed: adjacent rows of the ABC table are in
\* descending revenue, and rows of equal revenue in ascending product id.
C4_OrdenacaoMonotona ==
    abc_produtos.def =>
        \A i \in DOMAIN abc_produtos.linhas :
            i < Len(abc_produtos.linhas) =>
                LET a == abc_produtos.linhas[i]
                    b == abc_produtos.linhas[i + 1]
                IN  /\ a.Receita_Liquida >= b.Receita_Liquida
                    /\ a.Receita_Liquida = b.Receita_Liquida => a.ID_Produto < b.ID_Produto

\* C5 -- Cumulative closure: in the ABC table every row's cumulative revenue is the
\* sum of the revenues of the rows ranked up to it, and when total revenue is
\* positive the last row's cumulative percentage is 100.
C5_FechoAcumulado ==
    abc_produtos.def =>
        LET t == abc_produtos.linhas
        IN  /\ \A i \in DOMAIN t :
                  t[i].Receita_Acumulada = Receitas(SubSeq(t, 1, i))
            /\ Receitas(t) > 0 => t[Len(t)].Pct_Acumulado = Num(10000)

C5_Witness ==
    /\ abc_produtos.def
    /\ Len(abc_produtos.linhas) = 2
    /\ Receitas(abc_produtos.linhas) > 0
    /\ abc_produtos.linhas[1].Pct_Acumulado # Num(10000)
    /\ abc_produtos.linhas[2].Pct_Acumulado = Num(10000)

\* the class the thresholds give to a percentage in hundredths: <= 80 is A,
\* <= 95 is B, anything else C
ClassePorLimiar(h) == IF h <= 8000 THEN "A" ELSE IF h <= 9500 THEN "B" ELSE "C"

\* C6 as claimed: the class follows from the thresholds applied to the cumulative
\* percentage cumulative revenue / total revenue x 100 itself (not rounded):
\* A when it is <= 80, B when it is <= 95, else C.
C6_ClassePctExato ==
    (saida.tipo = "abc" /\ entrada.total > 0) =>
        saida.Classe_ABC =
            (IF entrada.acum * 100 <= 80 * entrada.total THEN "A"
             ELSE IF entrada.acum * 100 <= 95 * entrada.total THEN "B"
             ELSE "C")

\* C6 as amended: the percentage is cumulative revenue / total revenue x 100 rounded
\* to 2 decimals, and the class follows from the thresholds applied to the rounded
\* percentage, both inclusive on the lower class; a percentage that is not a number
\* (total revenue zero) is class C unless it is minus infinity.
C6_ClassePctArredondado ==
    saida.tipo = "abc" =>
        /\ entrada.total > 0 =>
              /\ saida.Pct_Acumulado.tipo = "num"
              /\ LET d == saida.Pct_Acumulado.v * entrada.total - entrada.acum * 10000
                 IN  2 * d <= entrada.total /\ -2 * d <= entrada.total
              /\ saida.Classe_ABC = ClassePorLimiar(saida.Pct_Acumulado.v)
        /\ entrada.total = 0 => saida.Classe_ABC = "C"

C6_Witness ==
    /\ saida.tipo = "abc"
    /\ saida.Pct_Acumulado = Num(9500)
    /\ saida.Classe_ABC = "B"

\* the first rule of the chain that (R, F) matches, 5 for the fallback
PrimeiraRegra(R, F) ==
    IF R \in {4, 5} /\ F \in {4, 5} THEN 1
    ELSE IF R \in {3, 4, 5} /\ F \in {3, 4} THEN 2
    ELSE IF R \in {4, 5} /\ F \in {1, 2} THEN 3
    ELSE IF R \in {2, 3} /\ F \in {2, 3, 4} THEN 4
    ELSE 5

RotulosIngles == <<"Champions", "Loyal", "Potential", "At Risk", "Lost">>

RotulosCodigo == <<"Champions", "Leais", "Potencial", "Em Risco", "Perdidos">>

\* C7 as claimed: the segment of (R, F, M) is the label of the first matching rule,
\* the labels being Champions, Loyal, Potential, At Risk, Lost.
C7_CadeiaRotulosIngles ==
    saida.tipo = "rfm" =>
        saida.Segmento_RFM = RotulosIngles[PrimeiraRegra(entrada.R, entrada.F)]

\* C7 as amended: the segment of (R, F, M) is the label of the first matching rule,
\* the labels being the strings Champions, Leais, Potencial, Em Risco, Perdidos;
\* it is a function of (R, F) alone.
C7_CadeiaRotulosCodigo ==
    saida.tipo = "rfm" =>
        saida.Segmento_RFM = RotulosCodigo[PrimeiraRegra(entrada.R, entrada.F)]

C7_Witness ==
    /\ saida.tipo = "rfm"
    /\ entrada.R = 4 /\ entrada.F = 4 /\ entrada.M = 1
    /\ saida.Segmento_RFM = "Champions"

\* the RFM table has exactly one row per customer of the ledger
UmaLinhaPorCliente ==
    LET t == rfm_clientes.linhas
    IN  /\ {t[i].ID_Cliente : i \in DOMAIN t} =
              {fato_vendas.linhas[i].ID_Cliente : i \in DOMAIN fato_vendas.linhas}
        /\ \A i, j \in DOMAIN t : t[i].ID_Cliente = t[j].ID_Cliente => i = j

\* C8 as claimed: after a successful transform the RFM table has exactly one row per
\* customer with a sale, each with a label of {Champions, Loyal, Potential, At Risk,
\* Lost}.
C8_CoberturaRotulosIngles ==
    (rfm_clientes.def /\ fato_vendas.def) =>
        /\ UmaLinhaPorCliente
        /\ \A i \in DOMAIN rfm_clientes.linhas :
              rfm_clientes.linhas[i].Segmento_RFM \in Range(RotulosIngles)

\* C8 as amended: after a successful transform the RFM table has exactly one row per
\* customer with a sale, each with a label of {Champions, Leais, Potencial, Em Risco,
\* Perdidos}.
C8_CoberturaRotulosCodigo ==
    (rfm_clientes.def /\ fato_vendas.def) =>
        /\ UmaLinhaPorCliente
        /\ \A i \in DOMAIN rfm_clientes.linhas :
              rfm_clientes.linhas[i].Segmento_RFM \in Range(RotulosCodigo)

C8_Witness ==
    /\ rfm_clientes.def
    /\ fato_vendas.def
    /\ Len(rfm_clientes.linhas) = 2
    /\ Len(fato_vendas.linhas) = 3
    /\ rfm_clientes.linhas[1].Segmento_RFM # rfm_clientes.linhas[2].Segmento_RFM

\* C9 -- Empty-input fault, as claimed: when transform has returned on a ledger with
\* no transactions or with total revenue zero, the outcome is an EmptyDatasetError
\* and no ABC table exists, in memory or on disk.
C9_FalhaDatasetVazio ==
    (TransformRetornou /\ Receitas(fato_vendas.linhas) = 0) =>
        /\ erro.classe = "EmptyDatasetError"
        /\ ~abc_produtos.def
        /\ ~disco.abc_produtos.def

\* C10 -- Idempotence, as claimed: a run that writes over the artifacts of an earlier
\* run of the same ledger writes identical monthly, RFM and ABC artifacts, and it
\* has read the same sale records.
C10_Idempotencia ==
    [][(pc = "transformado" /\ disco.vendas_mensais.def) =>
          /\ disco'.vendas_mensais = disco.vendas_mensais
          /\ disco'.rfm_clientes = disco.rfm_clientes
          /\ disco'.abc_produtos = disco.abc_produtos
          /\ RegistrosBase(disco'.fato_vendas) = RegistrosBase(disco.fato_vendas)]_vars

\* C11 -- Input immutability, as claimed: no stage of a run changes the sale table on
\* disk (fato_vendas.csv), and once extract has read the sale table no stage changes
\* it in memory; the derived fields go to a copy.
C11_EntradaImutavel ==
    [][/\ disco'.fato_vendas = disco.fato_vendas
       /\ (fato_vendas.def /\ fato_vendas'.def) => fato_vendas' = fato_vendas]_vars

\* C12 -- Score direction: whenever a metric column is scored, every score is an
\* integer in 1..5; for recency a smaller value never gets a lower score, the
\* smallest value gets 5 and the largest 1; for frequency and monetary a larger value
\* never gets a lower score, the smallest value gets 1 and the largest 5.
C12_DirecaoScores ==
    (saida.tipo = "qcut" /\ ~saida.raised) =>
        LET x == entrada.x
            s == saida.scores
            lo == Min(Range(x))
            hi == Max(Range(x))
        IN  /\ DOMAIN s = DOMAIN x
            /\ \A i \in DOMAIN s : s[i] \in 1..5
            /\ IF entrada.metrica = "Recencia"
               THEN /\ \A i, j \in DOMAIN x : x[i] < x[j] => s[i] >= s[j]
                    /\ \A i \in DOMAIN x :
                          (x[i] = lo => s[i] = 5) /\ (x[i] = hi => s[i] = 1)
               ELSE /\ \A i, j \in DOMAIN x : x[i] < x[j] => s[i] <= s[j]
                    /\ \A i \in DOMAIN x :
                          (x[i] = lo => s[i] = 1) /\ (x[i] = hi => s[i] = 5)

C12_Witness ==
    /\ saida.tipo = "qcut"
    /\ ~saida.raised
    /\ entrada.metrica = "Recencia"
    /\ Len(entrada.x) = 5
    /\ \E i, j \in DOMAIN entrada.x : i # j /\ entrada.x[i] = entrada.x[j]
    /\ \E i \in DOMAIN saida.scores : saida.scores[i] \in {2, 3, 4}

\* C13 -- Margin at zero revenue, as claimed: the normalizer returns every record,
\* and the margin percentage of every sale whose net revenue is exactly zero is the
\* not-a-number sentinel (not infinite, not zero), whatever its gross profit; the
\* other records get a finite margin.
C13_MargemReceitaZero ==
    saida.tipo = "vendas" =>
        /\ Len(saida.fato) = Len(entrada.fato)
        /\ \A i \in DOMAIN entrada.fato :
              IF entrada.fato[i].Receita_Liquida = 0
              THEN saida.fato[i].Margem_Pct = NaN
              ELSE saida.fato[i].Margem_Pct.tipo = "num"

\* C14 -- Malformed input, as claimed: a run over a ledger with a missing or
\* unparseable sale date, or a non-numeric net revenue or gross profit, ends with a
\* MalformedRecordError at its caller, no reduction (monthly, RFM, ABC) has been
\* computed, and no artifact is written.
C14_EntradaMalformada ==
    saida.tipo = "run" =>
        /\ saida.propagada = "MalformedRecordError"
        /\ ~saida.vendas_mensais.def
        /\ ~saida.rfm_clientes.def
        /\ ~saida.abc_produtos.def
        /\ ~saida.gravou

\* C15 -- Partition: the sale counts of the monthly rows and the frequencies of the
\* RFM rows each sum to the number of sale records; the monthly table has exactly
\* one row per (year, month) in which a sale falls and none for another month; the
\* ABC table has exactly one row per product sold.
C15_Particao ==
    LET fato == fato_vendas.linhas
        vm == vendas_mensais.linhas
        rfm == rfm_clientes.linhas
        abc == abc_produtos.linhas
    IN  /\ vendas_mensais.def =>
              /\ SumSeq(Col(vm, "Qtd_Vendas")) = Len(fato)
              /\ {<<vm[j].Ano, vm[j].Mes>> : j \in DOMAIN vm} =
                    {<<fato[i].Data_Venda.ano, fato[i].Data_Venda.mes>> : i \in DOMAIN fato}
              /\ \A j, k \in DOMAIN vm :
                    (vm[j].Ano = vm[k].Ano /\ vm[j].Mes = vm[k].Mes) => j = k
              /\ \A j \in DOMAIN vm :
                    vm[j].Qtd_Vendas =
                        Cardinality({i \in DOMAIN fato :
                                        /\ fato[i].Data_Venda.ano = vm[j].Ano
                                        /\ fato[i].Data_Venda.mes = vm[j].Mes})
        /\ rfm_clientes.def =>
              /\ SumSeq(Col(rfm, "Frequencia")) = Len(fato)
              /\ \A j, k \in DOMAIN rfm : rfm[j].ID_Cliente = rfm[k].ID_Cliente => j = k
        /\ abc_produtos.def =>
              /\ {abc[j].ID_Produto : j \in DOMAIN abc} =
                    {fato[i].ID_Produto : i \in DOMAIN fato}
              /\ \A j, k \in DOMAIN abc : abc[j].ID_Produto = abc[k].ID_Produto => j = k

C15_Witness ==
    /\ abc_produtos.def
    /\ Len(fato_vendas.linhas) = 3
    /\ Len(vendas_mensais.linhas) = 2
    /\ Len(rfm_clientes.linhas) = 2
    /\ Len(abc_produtos.linhas) = 2
    /\ \E j \in DOMAIN vendas_mensais.linhas : vendas_mensais.linhas[j].Qtd_Vendas = 2

\* the rows of the sale table in memory that belong to customer c
VendasDe(c) == {i \in DOMAIN fato_vendas.linhas : fato_vendas.linhas[i].ID_Cliente = c}

\* C16 -- Per-customer reduction: when transform has built the RFM table, every row
\* has as recency the days from the customer's most recent sale date to the as-of
\* day, as frequency the number of the customer's sales and as monetary the sum of
\* their net revenue; the recency is not negative when no sale of the customer is
\* dated after the as-of day.
C16_ReducaoPorCliente ==
    (pc = "transformado") =>
        \A j \in DOMAIN rfm_clientes.linhas :
            LET r == rfm_clientes.linhas[j]
                fato == fato_vendas.linhas
                S == VendasDe(r.ID_Cliente)
            IN  /\ \E i \in S : DayNum(fato[i].Data_Venda) = Hoje - r.Recencia
                /\ \A i \in S : DayNum(fato[i].Data_Venda) <= Hoje - r.Recencia
                /\ r.Frequencia = Cardinality(S)
                /\ r.Monetario =
                      SumSeq(Col(SelectSeq(fato, LAMBDA v : v.ID_Cliente = r.ID_Cliente),
                                 "Receita_Liquida"))
                /\ (\A i \in S : DayNum(fato[i].Data_Venda) <= Hoje) => r.Recencia >= 0

C16_Witness ==
    /\ pc = "transformado"
    /\ relogio = 1
    /\ \E j \in DOMAIN rfm_clientes.linhas :
          LET r == rfm_clientes.linhas[j]
          IN  /\ r.Frequencia = 2
              /\ r.Recencia = 3
              /\ r.Monetario = 150
              /\ \E i \in VendasDe(r.ID_Cliente) :
                    fato_vendas.linhas[i].Data_Venda = DatasVenda[1]

\* C17 -- End-to-end example: on the three sales no stage fails; the monthly table
\* is the single row of the month of D0 with revenue 350, profit 130, count 3 and
\* average ticket 116.67; the ABC table ranks X (revenue 300) first with a cumulative
\* percentage that is 85.7 to one decimal and class B, then Y (revenue 50) with
\* cumulative percentage 100 and class C.
C17_ExemploCompleto ==
    /\ retorno # "False"
    /\ erro = SemErro
    /\ pc \in {"transformado", "fim"} =>
          /\ vendas_mensais.def
          /\ abc_produtos.def
          /\ rfm_clientes.def
    /\ vendas_mensais.def =>
          /\ Len(vendas_mensais.linhas) = 1
          /\ LET m == vendas_mensais.linhas[1]
             IN  /\ m.Ano = entrada.D0.ano
                 /\ m.Mes = entrada.D0.mes
                 /\ m.Receita_Liquida = 350
                 /\ m.Lucro_Bruto = 130
                 /\ m.Qtd_Vendas = 3
                 /\ m.Ticket_Medio = Num(11667)
    /\ abc_produtos.def =>
          /\ Len(abc_produtos.linhas) = 2
          /\ LET px == abc_produtos.linhas[1]
                 py == abc_produtos.linhas[2]
             IN  /\ px.ID_Produto = entrada.X
                 /\ px.Receita_Liquida = 300
                 /\ px.Pct_Acumulado.tipo = "num"
                 /\ px.Pct_Acumulado.v >= 8565
                 /\ px.Pct_Acumulado.v < 8575
                 /\ px.Classe_ABC = "B"
                 /\ py.ID_Produto = entrada.Y
                 /\ py.Receita_Liquida = 50
                 /\ py.Pct_Acumulado = Num(10000)
                 /\ py.Classe_ABC = "C"

C17_Witness ==
    /\ pc = "fim"
    /\ retorno = "True"
    /\ entrada.X = 2
    /\ disco.abc_produtos.def
    /\ disco.abc_produtos.linhas[1].ID_Produto = 2
    /\ disco.vendas_mensais.linhas[1].Qtd_Vendas = 3

\* the stored monthly rows a request asks for: all, or those of the year given
Pedidas ==
    {i \in DOMAIN disco.vendas_mensais.linhas :
        entrada.ano.dado => disco.vendas_mensais.linhas[i].Ano = entrada.ano.v}

\* C18 -- Monthly sales query, as claimed: a response with rows holds at most `limit`
\* of them (12 when no limit is given; none when the limit is not positive) and
\* never more than 100; its rows are in descending (year, month) and are the most
\* recent of the stored months asked for; when a year is given every row is of that
\* year; every row is a stored row.
C18_ConsultaMensal ==
    (saida.tipo = "resposta" /\ saida.status = 200) =>
        LET limit == IF entrada.limit.dado THEN entrada.limit.v ELSE 12
            corpo == saida.corpo
            todas == disco.vendas_mensais.linhas
        IN  /\ Len(corpo) <= Max({limit, 0})
            /\ Len(corpo) <= 100
            /\ \A i \in DOMAIN corpo :
                  i < Len(corpo) =>
                      corpo[i].ano * 12 + corpo[i].mes > corpo[i + 1].ano * 12 + corpo[i + 1].mes
            /\ \A i \in DOMAIN corpo :
                  \E j \in Pedidas :
                      /\ todas[j].Ano = corpo[i].ano
                      /\ todas[j].Mes = corpo[i].mes
                      /\ todas[j].Receita_Liquida = corpo[i].receita
                      /\ todas[j].Lucro_Bruto = corpo[i].lucro
                      /\ todas[j].Qtd_Vendas = corpo[i].qtd_vendas
                      /\ todas[j].Ticket_Medio = corpo[i].ticket_medio
            /\ \A j \in Pedidas :
                  (\A i \in DOMAIN corpo :
                      corpo[i].ano # todas[j].Ano \/ corpo[i].mes # todas[j].Mes) =>
                          \A i \in DOMAIN corpo :
                              corpo[i].ano * 12 + corpo[i].mes > todas[j].Ano * 12 + todas[j].Mes
            /\ entrada.ano.dado => \A i \in DOMAIN corpo : corpo[i].ano = entrada.ano.v

NomesEstagios == <<"extract", "transform", "load">>

\* the stages called so far are the first stages in order, every one before the
\* last returned True, and run has returned False exactly when the last one returned
\* False, True exactly when all three returned True
EstagiosEmOrdem ==
    LET n == Len(estagios)
    IN  /\ n <= 3
        /\ \A i \in 1..n : estagios[i].estagio = NomesEstagios[i]
        /\ \A i \in 1..n : i < n => estagios[i].retornou
        /\ retorno = "False" <=> (n >= 1 /\ ~estagios[n].retornou)
        /\ retorno = "True" <=> (n = 3 /\ estagios[3].retornou)
        /\ retorno # "None" => pc = "fim"

\* C19 -- Stage ordering of run: after every step the stages called are extract,
\* transform, load in that order, each called only when all before it returned True,
\* none called after one returned False; run has returned False as soon as a stage
\* did and True exactly when all three returned True; and a step changes a file only
\* when it is load called after extract and transform returned True.
C19_OrdemEstagios ==
    [][/\ EstagiosEmOrdem'
       /\ disco' # disco =>
             /\ estagios = <<Chamada("extract", TRUE), Chamada("transform", TRUE)>>
             /\ Len(estagios') = 3
             /\ estagios'[3].estagio = "load"]_vars

C19_Witness ==
    /\ pc = "fim"
    /\ retorno = "False"
    /\ estagios = <<Chamada("extract", TRUE), Chamada("transform", TRUE),
                    Chamada("load", FALSE)>>
    /\ disco.vendas_mensais.def
    /\ ~disco.abc_produtos.def

\* C20 -- Orchestrator halting, as claimed: once the ETL step has ended with run
\* having returned False, the process has exited with status 1 and the training step
\* was not started; the process exits with status 0 only when data generation and
\* the ETL both succeeded; and the count of completed steps never exceeds the number
\* of steps started.
C20_ParagemOrquestrador ==
    /\ (orq.fase \in {"laco", "saiu"} /\ orq.iniciados >= 2 /\ retorno = "False") =>
          /\ orq.fase = "saiu"
          /\ orq.status = "1"
          /\ orq.iniciados = 2
    /\ (orq.fase = "saiu" /\ orq.status = "0") =>
          /\ retorno = "True"
          /\ orq.success_count >= 2
    /\ orq.success_count <= orq.iniciados

\* the rank of a class letter: A before B before C
OrdemClasse(c) == IF c = "A" THEN 1 ELSE IF c = "B" THEN 2 ELSE 3

\* float b < float a, as IEEE compares them: any comparison with NaN is False
Decresce(a, b) ==
    CASE a.tipo = "nan" \/ b.tipo = "nan" -> FALSE
      [] a.tipo = "num" /\ b.tipo = "num" -> b.v < a.v
      [] a.tipo = "inf" /\ b.tipo = "inf" -> b.v < a.v
      [] a.tipo = "num" /\ b.tipo = "inf" -> b.v < 0
      [] OTHER -> a.v > 0

\* no row of the ABC table is of a class nearer to A than the row ranked before it
ClassesNaoRecuam(t) ==
    \A i \in DOMAIN t :
        i < Len(t) => OrdemClasse(t[i].Classe_ABC) <= OrdemClasse(t[i + 1].Classe_ABC)

\* no row of the ABC table has a cumulative percentage below that of the row before it
PctNaoDecresce(t) ==
    \A i \in DOMAIN t :
        i < Len(t) => ~Decresce(t[i].Pct_Acumulado, t[i + 1].Pct_Acumulado)

\* C21 -- Class monotonicity along the ranking, as claimed: for every input, products
\* of zero or negative summed revenue included, the cumulative percentage never
\* decreases along the ABC table and the class letter never moves back toward A.
C21_MonotoniaSempre ==
    saida.tipo = "ranking" =>
        /\ PctNaoDecresce(saida.linhas)
        /\ ClassesNaoRecuam(saida.linhas)

\* C21 -- Class monotonicity along the ranking, amended: for every input, products of
\* zero or negative summed revenue included, the class letter never moves back
\* toward A along the ABC table; the cumulative percentage never decreases when no
\* product's summed revenue is negative, and is then a number whenever total
\* revenue is positive.
C21_MonotoniaClasse ==
    saida.tipo = "ranking" =>
        LET t == saida.linhas
        IN  /\ ClassesNaoRecuam(t)
            /\ (\A i \in DOMAIN t : t[i].Receita_Liquida >= 0) =>
                  /\ PctNaoDecresce(t)
                  /\ Receitas(t) > 0 => \A i \in DOMAIN t : t[i].Pct_Acumulado.tipo = "num"

C21_Witness ==
    /\ saida.tipo = "ranking"
    /\ Len(saida.linhas) = 3
    /\ saida.linhas[1].Receita_Liquida > 0
    /\ saida.linhas[3].Receita_Liquida < 0
    /\ saida.linhas[1].Classe_ABC = "A"
    /\ saida.linhas[3].Classe_ABC = "C"
    /\ Decresce(saida.linhas[1].Pct_Acumulado, saida.linhas[2].Pct_Acumulado)

====
